---------------------------- MODULE Spec2Model ----------------------------
(***************************************************************************)
(* A model of openrlhf/utils/deepspeed.py (class DeepspeedStrategy).       *)
(*                                                                         *)
(* Five parts of the class are modelled, each with its own specification:  *)
(*   Spec          save_ckpt: the retention sweep of the primary process,  *)
(*                 the checkpoint write of every process, and another      *)
(*                 actor that removes checkpoint directories concurrently  *)
(*   SpecPrepare   prepare / ds_init_train_model / ds_init_eval_model      *)
(*   SpecSave      save_model / save_hf_format                             *)
(*   SpecEma       setup_distributed / moving_average                      *)
(*   SpecReduce    all_reduce / all_gather on a process group              *)
(*                                                                         *)
(* File sizes are counted in MiB (bytes scaled by 2^20) so that the        *)
(* products of line 365 stay inside TLC's integers.                        *)
(***************************************************************************)
EXTENDS Integers, Sequences, FiniteSets, TLC

VARIABLES
    \* ---- save_ckpt: the call's arguments and the process group
    args,           \* [max_num, max_mem, engine]: arguments of save_ckpt
    world_size,     \* number of processes calling save_ckpt
    \* ---- save_ckpt: the file system under save_dir
    rootExists,     \* os.path.exists(save_dir)
    dirs,           \* names of the subdirectories of save_dir
    mtime,          \* modification time of each name
    size,           \* cumulative file size of each subdirectory (MiB)
    ptFile,         \* a loose "<tag>.pt" file lies in save_dir
    \* ---- save_ckpt: each process's position and locals
    pc,             \* rank -> position in save_ckpt
    err,            \* rank -> exception that ended the call ("" if none)
    cand,           \* rank 0: names that passed os.listdir + os.path.isdir
    subdirs,        \* rank 0: the sorted listing (sequence of names)
    oldest_dir,     \* rank 0: subdirs[0] of the eviction branch
    \* ---- save_ckpt: history
    fsLog,          \* {<<rank, op>>}: who mutated save_dir and how
    evicted,        \* names removed by the sweep's shutil.rmtree
    extRemoved,     \* names removed by the other actor
    extBudget,      \* removals the other actor may still make
    dirs0,          \* the subdirectories present when save_ckpt was called
    size0,          \* their sizes
    mtime0,         \* their modification times
    written,        \* [tag, new_size] of the checkpoint rank 0 wrote, or NoWrite
    \* ---- prepare
    prep,
    \* ---- save_model / save_hf_format
    sav,
    \* ---- setup_distributed / moving_average
    ema,
    \* ---- all_reduce / all_gather
    red

ckptVars == <<args, world_size, rootExists, dirs, mtime, size, ptFile, pc, err,
              cand, subdirs, oldest_dir, fsLog, evicted, extRemoved, extBudget,
              dirs0, size0, mtime0, written>>
vars == <<ckptVars, prep, sav, ema, red>>

Idle == [idle |-> TRUE]

-----------------------------------------------------------------------------
(* Bounds of the model and constants of the program                        *)

MaxDirs == 4            \* subdirectories that may exist before the call
MaxRanks == 2           \* processes in the group of the concurrent runs
MaxExternal == 1        \* removals by the other actor in the concurrent runs

MiBPerGiB == 1024       \* line 365: 1024 * 1024 * 1024 bytes, in MiB

GiB(n) == n * MiBPerGiB

Names == 1..MaxDirs
NewTag == MaxDirs + 1                   \* a tag no subdirectory carries yet
PtName == MaxDirs + 2                   \* the loose file "<tag>.pt"
Now == MaxDirs + 1                      \* the time of the write: later than every mtime
TagChoices == {1, NewTag}
SizeChoices == {GiB(10), GiB(20), GiB(30), GiB(40)}
MaxNumChoices == {0, 1, 2, 3, 10}
MaxMemChoices == {0, 50, 1000}
NoWrite == [tag |-> 0, new_size |-> 0]

-----------------------------------------------------------------------------
(* Helpers of save_ckpt                                                    *)

\* is_rank_0: dist.get_rank() == 0
IsRank0(r) == r = 0

Ranks == 0..(world_size - 1)

\* MAX_SIZE = max_mem * 1024 * 1024 * 1024
MAX_SIZE(max_mem) == max_mem * MiBPerGiB

\* subdirs.sort(key=lambda x: x[1]): oldest first
RECURSIVE SortByName(_, _)
SortByName(S, mt) ==
    IF S = {} THEN <<>>
    ELSE LET d == CHOOSE x \in S : \A y \in S : x <= y
         IN  <<d>> \o SortByName(S \ {d}, mt)

RECURSIVE SortByMtime(_, _)
SortByMtime(S, mt) ==
    IF S = {} THEN <<>>
    ELSE LET m == CHOOSE d \in S : \A e \in S : mt[d] <= mt[e]
         IN  <<m>> \o SortByMtime(S \ {m}, mt)

RECURSIVE SumSize(_, _)
SumSize(S, sz) ==
    IF S = {} THEN 0
    ELSE LET d == CHOOSE e \in S : TRUE
         IN  sz[d] + SumSize(S \ {d}, sz)

\* the os.walk loop: a listed directory that is gone yields no file
TotalSize(listing, present, sz) ==
    SumSize({listing[i] : i \in 1..Len(listing)} \cap present, sz)

\* len(subdirs) >= max_num or total_size > MAX_SIZE
MustEvictCountOnly(n, total, max_num, max_mem) == n >= max_num
MustEvictStrictCount(n, total, max_num, max_mem) ==
    n > max_num \/ total > MAX_SIZE(max_mem)
MustEvict(n, total, max_num, max_mem) ==
    n >= max_num \/ total > MAX_SIZE(max_mem)

\* while True: after a deletion the loop lists the directories again
AfterEvictOnce == "write"
AfterEvict == "list"

\* oldest_dir, _ = subdirs[0]
PickNewest(listing) == listing[Len(listing)]
PickOldest(listing) == listing[1]


\* os.listdir(save_dir)
ListDir == dirs \cup (IF ptFile THEN {PtName} ELSE {})

\* os.path.isdir(os.path.join(save_dir, d))
IsDir(d) == d \in dirs

Fail(r, e) ==
    /\ pc' = [pc EXCEPT ![r] = "error"]
    /\ err' = [err EXCEPT ![r] = e]

Goto(r, l) ==
    /\ pc' = [pc EXCEPT ![r] = l]
    /\ err' = err

-----------------------------------------------------------------------------
(* save_ckpt, lines 358-400, one action per file-system access             *)

\* lines 359-362: only rank 0 enters the sweep; it creates save_dir first
Enter(r) ==
    /\ pc[r] = "start"
    /\ IF IsRank0(r)
       THEN /\ rootExists' = TRUE
            /\ fsLog' = IF rootExists THEN fsLog ELSE fsLog \cup {<<r, "makedirs">>}
            /\ Goto(r, "list")
       ELSE /\ UNCHANGED <<rootExists, fsLog>>
            /\ Goto(r, "write")
    /\ UNCHANGED <<prep, sav, ema, red>>
    /\ UNCHANGED <<args, world_size, dirs, mtime, size, ptFile, cand, subdirs,
                   oldest_dir, evicted, extRemoved, extBudget, dirs0, size0, mtime0, written>>

\* lines 369-373: os.listdir and the os.path.isdir filter
ListSubdirs(r) ==
    /\ pc[r] = "list"
    /\ cand' = {d \in ListDir : IsDir(d)}
    /\ Goto(r, "stat")
    /\ UNCHANGED <<prep, sav, ema, red>>
    /\ UNCHANGED <<args, world_size, rootExists, dirs, mtime, size, ptFile, subdirs,
                   oldest_dir, fsLog, evicted, extRemoved, extBudget, dirs0, size0,
                   mtime0, written>>

\* lines 370, 376: os.path.getmtime of every listed directory (it raises
\* FileNotFoundError for one that is gone), then the sort
StatSubdirs(r) ==
    /\ pc[r] = "stat"
    /\ IF cand \subseteq ListDir
       THEN /\ subdirs' = SortByMtime(cand, mtime)
            /\ Goto(r, "walk")
       ELSE /\ subdirs' = subdirs
            /\ Fail(r, "FileNotFoundError")
    /\ UNCHANGED <<prep, sav, ema, red>>
    /\ UNCHANGED <<args, world_size, rootExists, dirs, mtime, size, ptFile, cand,
                   oldest_dir, fsLog, evicted, extRemoved, extBudget, dirs0, size0,
                   mtime0, written>>

\* lines 380-382: os.walk lists the files of every listed directory; a directory
\* that is gone yields nothing.  cand keeps the directories whose files were listed.
WalkSubdirs(r) ==
    /\ pc[r] = "walk"
    /\ cand' = {subdirs[i] : i \in 1..Len(subdirs)} \cap dirs
    /\ Goto(r, "decide")
    /\ UNCHANGED <<prep, sav, ema, red>>
    /\ UNCHANGED <<args, world_size, rootExists, dirs, mtime, size, ptFile, subdirs,
                   oldest_dir, fsLog, evicted, extRemoved, extBudget, dirs0, size0,
                   mtime0, written>>

\* lines 383-393: os.path.getsize of every listed file (FileNotFoundError for a
\* file that is gone), then the test and the choice of subdirs[0] (IndexError on
\* an empty listing)
Decide(r) ==
    /\ pc[r] = "decide"
    /\ IF ~(cand \subseteq dirs)
       THEN /\ oldest_dir' = oldest_dir
            /\ Fail(r, "FileNotFoundError")
       ELSE LET total_size == TotalSize(subdirs, cand, size)
            IN  IF MustEvict(Len(subdirs), total_size, args.max_num, args.max_mem)
                THEN IF subdirs = <<>>
                     THEN /\ oldest_dir' = oldest_dir
                          /\ Fail(r, "IndexError")
                     ELSE /\ oldest_dir' = PickOldest(subdirs)
                          /\ Goto(r, "exists")
                ELSE /\ oldest_dir' = oldest_dir
                     /\ Goto(r, "write")
    /\ UNCHANGED <<prep, sav, ema, red>>
    /\ UNCHANGED <<args, world_size, rootExists, dirs, mtime, size, ptFile, cand,
                   subdirs, fsLog, evicted, extRemoved, extBudget, dirs0, size0,
                   mtime0, written>>

\* line 389: os.path.exists(oldest_dir)
CheckOldest(r) ==
    /\ pc[r] = "exists"
    /\ IF oldest_dir \in ListDir THEN Goto(r, "rmtree") ELSE Goto(r, AfterEvict)
    /\ UNCHANGED <<prep, sav, ema, red>>
    /\ UNCHANGED <<args, world_size, rootExists, dirs, mtime, size, ptFile, cand,
                   subdirs, oldest_dir, fsLog, evicted, extRemoved, extBudget, dirs0,
                   size0, mtime0, written>>

\* line 390: what shutil.rmtree(d) leaves of the subdirectories S
RmtreeKeeps(S, d) == S
Rmtree(S, d) == S \ {d}

\* lines 390-391: shutil.rmtree(oldest_dir) raises FileNotFoundError when the
\* directory is gone; self.print writes nothing to disk
RemoveOldest(r) ==
    /\ pc[r] = "rmtree"
    /\ IF oldest_dir \in dirs
       THEN /\ dirs' = Rmtree(dirs, oldest_dir)
            /\ evicted' = evicted \cup {oldest_dir}
            /\ fsLog' = fsLog \cup {<<r, "rmtree">>}
            /\ Goto(r, AfterEvict)
       ELSE /\ UNCHANGED <<dirs, evicted, fsLog>>
            /\ Fail(r, "FileNotFoundError")
    /\ UNCHANGED <<prep, sav, ema, red>>
    /\ UNCHANGED <<args, world_size, rootExists, mtime, size, ptFile, cand, subdirs,
                   oldest_dir, extRemoved, extBudget, dirs0, size0, mtime0, written>>

\* lines 396-397: model.save_checkpoint(save_dir, tag=tag, ...).  The engine's
\* primitive is collective: no process writes before every process has called
\* it, and rank 0 creates save_dir/<tag> before the others write into it.
WriteEngine(r) ==
    /\ pc[r] = "write"
    /\ args.engine
    /\ \A q \in Ranks : pc[q] \in {"write", "done"}
    /\ IsRank0(r) \/ pc[0] = "done"
    /\ IF IsRank0(r)
       THEN \E t \in TagChoices, s \in SizeChoices :
              /\ dirs' = dirs \cup {t}
              /\ size' = [size EXCEPT ![t] = s]
              /\ mtime' = [mtime EXCEPT ![t] = Now]
              /\ written' = [tag |-> t, new_size |-> s]
       ELSE UNCHANGED <<dirs, size, mtime, written>>
    /\ fsLog' = fsLog \cup {<<r, "save_checkpoint">>}
    /\ Goto(r, "done")
    /\ UNCHANGED <<prep, sav, ema, red>>
    /\ UNCHANGED <<args, world_size, rootExists, ptFile, cand, subdirs, oldest_dir,
                   evicted, extRemoved, extBudget, dirs0, size0, mtime0>>

\* lines 398-400: torch.save(model.state_dict(), save_dir/<tag>.pt), outside the
\* is_rank_0 branch; it raises FileNotFoundError when save_dir does not exist
WriteFallback(r) ==
    /\ pc[r] = "write"
    /\ ~args.engine
    /\ IF rootExists
       THEN /\ ptFile' = TRUE
            /\ fsLog' = fsLog \cup {<<r, "torch_save">>}
            /\ Goto(r, "done")
       ELSE /\ UNCHANGED <<ptFile, fsLog>>
            /\ Fail(r, "FileNotFoundError")
    /\ UNCHANGED <<prep, sav, ema, red>>
    /\ UNCHANGED <<args, world_size, rootExists, dirs, mtime, size, cand, subdirs,
                   oldest_dir, evicted, extRemoved, extBudget, dirs0, size0, mtime0, written>>

\* another actor (a concurrent cleanup) removes a checkpoint directory
ExternalRemove ==
    /\ extBudget > 0
    /\ \E d \in dirs :
         /\ dirs' = dirs \ {d}
         /\ extRemoved' = extRemoved \cup {d}
    /\ extBudget' = extBudget - 1
    /\ UNCHANGED <<prep, sav, ema, red>>
    /\ UNCHANGED <<args, world_size, rootExists, mtime, size, ptFile, pc, err, cand,
                   subdirs, oldest_dir, fsLog, evicted, dirs0, size0, mtime0, written>>

-----------------------------------------------------------------------------
(* The states save_ckpt is called in                                       *)

MtimeChoices ==
    { [d \in Names \cup {NewTag} |-> IF d \in Names THEN d ELSE 0],
      [d \in Names \cup {NewTag} |-> IF d \in Names THEN MaxDirs + 1 - d ELSE 0] }

InitFs(n, sizes, mtimes) ==
    /\ dirs = 1..n
    /\ size \in [Names \cup {NewTag} -> sizes \cup {0}]
    /\ \A d \in Names \cup {NewTag} : (size[d] = 0) <=> (d \notin dirs)
    /\ mtime \in mtimes
    /\ rootExists \in (IF n = 0 THEN BOOLEAN ELSE {TRUE})
    /\ dirs0 = dirs
    /\ size0 = size
    /\ mtime0 = mtime

InitLocals ==
    /\ pc = [r \in Ranks |-> "start"]
    /\ err = [r \in Ranks |-> ""]
    /\ cand = {}
    /\ subdirs = <<>>
    /\ oldest_dir = 0
    /\ fsLog = {}
    /\ evicted = {}
    /\ extRemoved = {}
    /\ written = NoWrite

\* one process, no other actor, every directory layout within the bounds
InitSingle ==
    /\ world_size = 1
    /\ extBudget = 0
    /\ args \in [max_num : MaxNumChoices, max_mem : MaxMemChoices, engine : BOOLEAN]
    /\ \E n \in 0..MaxDirs : InitFs(n, SizeChoices, MtimeChoices)
    /\ ptFile = FALSE
    /\ InitLocals

\* several processes and a concurrent cleanup, on small layouts
InitGroup ==
    /\ world_size = MaxRanks
    /\ extBudget = MaxExternal
    /\ args \in [max_num : {1, 2}, max_mem : {50}, engine : BOOLEAN]
    /\ \E n \in 0..2 : InitFs(n, {GiB(10), GiB(40)}, MtimeChoices)
    /\ ptFile \in (IF rootExists THEN BOOLEAN ELSE {FALSE})
    /\ InitLocals

Init ==
    /\ InitSingle \/ InitGroup
    /\ prep = Idle
    /\ sav = Idle
    /\ ema = Idle
    /\ red = Idle

Next ==
    \/ \E r \in Ranks : Enter(r)
    \/ \E r \in Ranks : ListSubdirs(r)
    \/ \E r \in Ranks : StatSubdirs(r)
    \/ \E r \in Ranks : WalkSubdirs(r)
    \/ \E r \in Ranks : Decide(r)
    \/ \E r \in Ranks : CheckOldest(r)
    \/ \E r \in Ranks : RemoveOldest(r)
    \/ \E r \in Ranks : WriteEngine(r)
    \/ \E r \in Ranks : WriteFallback(r)
    \/ ExternalRemove

Spec == Init /\ [][Next]_vars

\* save_ckpt on one process with the save root to itself.  The process runs
\* its sweep to the end: none of lines 361-393 waits for anything.
Sweep0 ==
    \/ Enter(0) \/ ListSubdirs(0) \/ StatSubdirs(0) \/ WalkSubdirs(0)
    \/ Decide(0) \/ CheckOldest(0) \/ RemoveOldest(0)

InitLive ==
    /\ world_size = 1
    /\ extBudget = 0
    /\ args \in [max_num : MaxNumChoices, max_mem : MaxMemChoices, engine : BOOLEAN]
    /\ \E n \in 0..MaxDirs : InitFs(n, {GiB(10), GiB(40)}, MtimeChoices)
    /\ ptFile = FALSE
    /\ InitLocals
    /\ prep = Idle
    /\ sav = Idle
    /\ ema = Idle
    /\ red = Idle

NextLive ==
    \/ Enter(0)
    \/ ListSubdirs(0)
    \/ StatSubdirs(0)
    \/ WalkSubdirs(0)
    \/ Decide(0)
    \/ CheckOldest(0)
    \/ RemoveOldest(0)
    \/ WriteEngine(0)
    \/ WriteFallback(0)

SpecLive == InitLive /\ [][NextLive]_vars /\ WF_vars(Sweep0)

-----------------------------------------------------------------------------
(* Properties of save_ckpt                                                 *)

\* the directories present at the call, oldest first
Seq0 == SortByMtime(dirs0, mtime0)
\* the directories of the call that the sweep and the other actor left
Retained == dirs0 \ (evicted \cup extRemoved)
\* rank 0 has invoked the checkpoint-write primitive
WriteInvoked0 == <<0, "save_checkpoint">> \in fsLog \/ <<0, "torch_save">> \in fsLog
\* the sweep's exit condition, on the disk as it is
FixedPoint ==
    /\ Cardinality(dirs) < args.max_num
    /\ SumSize(dirs, size) <= MAX_SIZE(args.max_mem)

\* C1 as stated: once save_ckpt has completed on the primary process, the save
\* root holds at most max_num subdirectories and at most max_mem GiB in total.
C1_QuotaAfterSave ==
    pc[0] = "done" =>
        /\ Cardinality(dirs) <= args.max_num
        /\ SumSize(dirs, size) <= MAX_SIZE(args.max_mem)

\* C1 amended: once save_ckpt has completed on the primary process, the save
\* root holds at most max_num subdirectories, the subdirectories other than the
\* one just written hold at most max_mem GiB, and the total is at most
\* max_mem GiB plus the size of the new checkpoint.
C1_QuotaBeforeNewCheckpoint ==
    pc[0] = "done" =>
        /\ Cardinality(dirs) <= args.max_num
        /\ SumSize(dirs \ {written.tag}, size) <= MAX_SIZE(args.max_mem)
        /\ SumSize(dirs, size) <= MAX_SIZE(args.max_mem) + written.new_size

\* C1 witness: a save that evicted, wrote a new directory and filled the count
C1_Witness ==
    /\ pc[0] = "done"
    /\ evicted # {}
    /\ written.tag = NewTag
    /\ Cardinality(dirs) = args.max_num
    /\ SumSize(dirs, size) > MAX_SIZE(args.max_mem)

\* four directories of 10, 20, 30 and 40 GiB, oldest first, max_mem = 50,
\* max_num = 10, nobody else touching the root
Scenario2 ==
    /\ Len(Seq0) = 4
    /\ \A i \in 1..4 : size0[Seq0[i]] = GiB(10 * i)
    /\ args.max_mem = 50
    /\ args.max_num = 10
    /\ extRemoved = {}

\* C2 as stated: in that scenario, after one save_ckpt the retained
\* pre-existing directories hold at most 50 GiB and the sweep removed exactly
\* the two oldest directories.
C2_TwoOldestRemoved ==
    (Scenario2 /\ pc[0] = "done") =>
        /\ SumSize(Retained, size0) <= GiB(50)
        /\ evicted = {Seq0[1], Seq0[2]}

\* C2 amended: in that scenario, after one save_ckpt the retained pre-existing
\* directories hold at most 50 GiB and the sweep removed exactly the three
\* oldest directories (only the 40 GiB one is kept).
C2_ThreeOldestRemoved ==
    (Scenario2 /\ pc[0] = "done") =>
        /\ SumSize(Retained, size0) <= GiB(50)
        /\ evicted = {Seq0[1], Seq0[2], Seq0[3]}

\* C2 witness: the scenario, with the save completed
C2_Witness == Scenario2 /\ pc[0] = "done" /\ Retained = {Seq0[4]}

\* max_num = 2, a size budget the directories never exceed, at least two
\* directories, nobody else touching the root
Scenario3 ==
    /\ args.max_num = 2
    /\ SumSize(dirs0, size0) <= MAX_SIZE(args.max_mem)
    /\ Cardinality(dirs0) >= 2
    /\ extRemoved = {}

C4_OnlyPrimaryMutates ==
    \A e \in fsLog :
        e[2] \in {"makedirs", "rmtree", "torch_save"} => IsRank0(e[1])

\* C15: the sweep evicts oldest-first.  At every deletion step the directory
\* the sweep removes has the least modification time among the subdirectories
\* present at that step; so every directory the sweep has removed is older than
\* every initial directory still standing, i.e. the survivors are a most-recent
\* suffix of the initial directories in modification-time order.
C15_EvictsOldestFirst ==
    /\ [][\A d \in evicted' \ evicted : \A e \in dirs : mtime[d] <= mtime[e]]_vars
    /\ [](\A d \in evicted : \A e \in Retained : mtime0[d] < mtime0[e])

\* C15 witness: the sweep has removed two directories and kept a third, with
\* modification times that do not follow the directory names
C15_Witness ==
    /\ Cardinality(evicted) = 2 /\ Cardinality(Retained) >= 1
    /\ \E d \in evicted : \E e \in Retained : d > e
    /\ pc[0] = "write"

\* no process or actor other than the sweep touches the save root
Sequential == extBudget = 0 /\ extRemoved = {}

\* C16: the sweep terminates for every initial set of subdirectories, every
\* max_num >= 1 and every max_mem >= 0.  With the root to itself, every loop
\* iteration that does not exit removes exactly one subdirectory, and the sweep
\* reaches its exit; it exits with fewer than max_num subdirectories of at most
\* max_mem GiB in total.
C16_SweepTerminates ==
    /\ [][(Sequential /\ pc[0] = "exists") => pc'[0] = "rmtree"]_vars
    /\ [][(pc[0] = "rmtree" /\ pc'[0] = "list")
           => Cardinality(dirs') = Cardinality(dirs) - 1]_vars
    /\ [](pc[0] = "write" => FixedPoint)
    /\ ((Sequential /\ args.max_num >= 1) ~> (pc[0] \in {"write", "done"}))

\* C16 witness: the sweep has exited after three iterations that each removed
\* a subdirectory, under a size quota of zero
C16_Witness ==
    /\ Sequential /\ args.max_num >= 1 /\ args.max_mem = 0
    /\ Cardinality(evicted) = 3 /\ pc[0] = "write"

\* C17: whenever the sweep takes its eviction branch the
\* sorted listing is non-empty, so subdirs[0] is defined and the sweep never
\* fails with IndexError -- for every max_num and max_mem, max_num = 0 and an
\* empty save root included.
C17_ListingNonEmptyOnEviction ==
    /\ err[0] # "IndexError"
    /\ (pc[0] \in {"exists", "rmtree"} => subdirs # <<>>)

\* the positions of the primary inside lines 360-393
SweepPositions == {"start", "list", "stat", "walk", "decide", "exists", "rmtree"}
\* the checkpoint-write primitives of lines 396-400
WritePrimitives == {"save_checkpoint", "torch_save"}

\* C18: no non-primary process invokes the
\* checkpoint-write primitive before the primary has created the save root and
\* finished its sweep: no write by another process falls inside the sweep.
C18_NoWriteDuringSweep ==
    \A r \in Ranks \ {0} :
        (pc[r] = "done" \/ \E w \in WritePrimitives : <<r, w>> \in fsLog)
            => pc[0] \notin SweepPositions

\* C9: on the primary process no directory is deleted once the write has been
\* invoked, and when the write is invoked the disk is at the sweep's fixed point
\* (count < max_num and total size <= max_mem GiB).
C9_SweepBeforeWrite ==
    [][ /\ (evicted' # evicted) => ~WriteInvoked0
        /\ WriteInvoked0 => (evicted' = evicted)
        /\ (WriteInvoked0' /\ ~WriteInvoked0) => FixedPoint ]_vars

\* C9 witness: the write was invoked after the sweep had deleted directories
C9_Witness == WriteInvoked0 /\ Cardinality(evicted) >= 2

\* C10: a directory removed by another actor during the sweep never makes
\* save_ckpt fail on the primary process.
C10_VanishedDirTolerated ==
    (extRemoved # {}) => err[0] # "FileNotFoundError"

-----------------------------------------------------------------------------
(* The parts of the state a specification does not use stay at rest        *)

CkptIdle ==
    /\ args = [max_num |-> 0, max_mem |-> 0, engine |-> FALSE]
    /\ world_size = 0
    /\ rootExists = FALSE
    /\ dirs = {}
    /\ mtime = <<>>
    /\ size = <<>>
    /\ ptFile = FALSE
    /\ pc = <<>>
    /\ err = <<>>
    /\ cand = {}
    /\ subdirs = <<>>
    /\ oldest_dir = 0
    /\ fsLog = {}
    /\ evicted = {}
    /\ extRemoved = {}
    /\ extBudget = 0
    /\ dirs0 = {}
    /\ size0 = <<>>
    /\ mtime0 = <<>>
    /\ written = NoWrite

-----------------------------------------------------------------------------
(* prepare, ds_init_train_model, ds_init_eval_model: lines 146-240         *)
(*                                                                         *)
(* prep.is_rlhf        self.is_rlhf                                        *)
(* prep.flag           the is_rlhf argument of the call in progress        *)
(* prep.prev           self.is_rlhf as the call in progress found it       *)
(* prep.pretrain       self.args.pretrain_data is not None                 *)
(* prep.tbs, prep.mbs  self.train_batch_size, self.micro_train_batch_size  *)
(* prep.entries, prep.i  the argument list and the loop's position         *)
(* prep.engineLog      the deepspeed.initialize calls of this prepare call *)
(* prep.ret            len(ret)                                            *)

MaxArgs == 3            \* entries in one prepare call

TupleLens == {2, 3, 4}
TrainBatchChoices == {1, 3}

\* an entry: a bare model, or a tuple of some length (its first element the model)
Entries ==
    [tuple : {FALSE}, len : {0}, actor : BOOLEAN]
        \cup [tuple : {TRUE}, len : {3}, actor : BOOLEAN]
        \cup [tuple : {TRUE}, len : TupleLens \ {3}, actor : {FALSE}]

ArgLists == UNION { [1..n -> Entries] : n \in 1..MaxArgs }

\* lines 184-188: the batch size ds_init_train_model hands to the engine
TrainBatchFromActorOnly(is_rlhf, is_actor, pretrain, tbs) ==
    IF is_actor /\ pretrain THEN tbs * 2 ELSE tbs
TrainBatch(is_rlhf, is_actor, pretrain, tbs) ==
    IF is_rlhf /\ is_actor /\ pretrain THEN tbs * 2 ELSE tbs

\* lines 227-228: the batch size ds_init_eval_model hands to the engine
EvalBatch(tbs) == tbs

\* line 153: assert len(arg) == 3
ArityOk(arg) == arg.len = 3

\* lines 149-150
PrepareCall ==
    /\ prep.pcp = "idle"
    /\ \E list \in ArgLists, flag \in BOOLEAN :
         prep' = [prep EXCEPT !.pcp = "loop", !.is_rlhf = flag, !.entries = list,
                              !.i = 1, !.ret = 0, !.engineLog = <<>>,
                              !.flag = flag, !.prev = prep.is_rlhf]
    /\ UNCHANGED <<ckptVars, sav, ema, red>>

\* lines 152-154, 160-203: a tuple entry
PrepareTrainEntry ==
    /\ prep.pcp = "loop"
    /\ prep.i <= Len(prep.entries)
    /\ LET arg == prep.entries[prep.i]
       IN  /\ arg.tuple
           /\ IF ArityOk(arg)
              THEN prep' = [prep EXCEPT
                       !.engineLog = Append(@, [mode |-> "train",
                                                micro |-> prep.mbs,
                                                batch |-> TrainBatch(prep.is_rlhf, arg.actor,
                                                                     prep.pretrain, prep.tbs)]),
                       !.ret = @ + 1,
                       !.i = @ + 1]
              ELSE prep' = [prep EXCEPT !.pcp = "error"]
    /\ UNCHANGED <<ckptVars, sav, ema, red>>

\* lines 155-156, 205-240: a bare model
PrepareEvalEntry ==
    /\ prep.pcp = "loop"
    /\ prep.i <= Len(prep.entries)
    /\ LET arg == prep.entries[prep.i]
       IN  /\ ~arg.tuple
           /\ prep' = [prep EXCEPT
                  !.engineLog = Append(@, [mode |-> "eval",
                                           micro |-> prep.mbs,
                                           batch |-> EvalBatch(prep.tbs)]),
                  !.ret = @ + 1,
                  !.i = @ + 1]
    /\ UNCHANGED <<ckptVars, sav, ema, red>>

\* line 158
PrepareReturn ==
    /\ prep.pcp = "loop"
    /\ prep.i > Len(prep.entries)
    /\ prep' = [prep EXCEPT !.pcp = "returned"]
    /\ UNCHANGED <<ckptVars, sav, ema, red>>

\* the call is over (returned or raised); self.is_rlhf stays as the call set it
PrepareOver ==
    /\ prep.pcp \in {"returned", "error"}
    /\ prep' = [prep EXCEPT !.pcp = "idle", !.entries = <<>>, !.i = 1, !.ret = 0,
                            !.engineLog = <<>>, !.flag = FALSE, !.prev = FALSE]
    /\ UNCHANGED <<ckptVars, sav, ema, red>>

\* lines 38-64: the strategy after construction
InitPrepare ==
    /\ CkptIdle
    /\ sav = Idle
    /\ ema = Idle
    /\ red = Idle
    /\ \E t \in TrainBatchChoices, pd \in BOOLEAN :
         prep = [pcp |-> "idle", is_rlhf |-> FALSE, pretrain |-> pd, tbs |-> t,
                 mbs |-> 1, entries |-> <<>>, i |-> 1, ret |-> 0, engineLog |-> <<>>,
                 flag |-> FALSE, prev |-> FALSE]

NextPrepare ==
    \/ PrepareCall
    \/ PrepareTrainEntry
    \/ PrepareEvalEntry
    \/ PrepareReturn
    \/ PrepareOver

SpecPrepare == InitPrepare /\ [][NextPrepare]_vars

\* C14: the j-th engine call of a prepare call is the one made for its j-th
\* entry; a training entry is handed 2 * train_batch_size exactly when this
\* call's is_rlhf argument is true, a pretraining corpus is configured and the
\* entry's model is the actor, and train_batch_size otherwise; an evaluation
\* entry is always handed train_batch_size.  What self.is_rlhf was before the
\* call plays no part.
C14_BatchDoubledForActorWithPretrain ==
    \A j \in 1..Len(prep.engineLog) :
        LET arg == prep.entries[j]
            call == prep.engineLog[j]
        IN  /\ call.mode = (IF arg.tuple THEN "train" ELSE "eval")
            /\ call.batch =
                  (IF arg.tuple /\ prep.flag /\ prep.pretrain /\ arg.actor
                   THEN 2 * prep.tbs ELSE prep.tbs)

\* C14 witness: a call with is_rlhf = false that follows a call with
\* is_rlhf = true has initialized an actor training entry, a pretraining corpus
\* configured, with the plain batch size
C14_Witness ==
    /\ prep.prev /\ ~prep.flag /\ prep.pretrain
    /\ \E j \in 1..Len(prep.engineLog) :
         /\ prep.entries[j].tuple /\ prep.entries[j].actor
         /\ prep.engineLog[j].batch = prep.tbs

\* a call with is_rlhf = true doubles the actor's batch and no other
C14_Doubling ==
    /\ prep.flag /\ prep.pretrain
    /\ \E j, k \in 1..Len(prep.engineLog) :
         /\ prep.entries[j].tuple /\ prep.entries[j].actor
         /\ prep.engineLog[j].batch = 2 * prep.tbs
         /\ prep.entries[k].tuple /\ ~prep.entries[k].actor
         /\ prep.engineLog[k].batch = prep.tbs

\* C5: when prepare fails on a tuple whose length is not 3, the engine's
\* initialize operation has not been called during that prepare call.
C5_FailsBeforeAnyEngineCall ==
    prep.pcp = "error" => Len(prep.engineLog) = 0

-----------------------------------------------------------------------------
(* save_model and save_hf_format: lines 272-308                            *)
(*                                                                         *)
(* sav.stage        self.stage                                             *)
(* sav.hf           the call came through save_hf_format                   *)
(* sav.world        processes in the group                                 *)
(* sav.fetch[k]     _z3_params_to_fetch([v]) is non-empty for parameter k  *)
(* sav.pcs[r]       position of rank r                                     *)
(* sav.idx[r]       the named parameter rank r's loop is at                *)
(* sav.inside[r]    rank r is inside the GatheredParameters scope          *)
(* sav.gathers[r]   the parameters whose gather scope rank r entered       *)
(* sav.out[r]       the keys of rank r's output_state_dict                 *)
(* sav.file         the keys of the state dict written to path             *)
(* sav.log          {<<rank, op>>}: who wrote what under the output path   *)

NParams == 2            \* named parameters of the model

StageChoices == {0, 1, 2, 3}
ParamNames == 1..NParams
BufferName == NParams + 1               \* one named buffer
ParamSeq == [k \in 1..NParams |-> k]    \* named_parameters(), in order
NoFile == {0}
SavRanks == 0..(sav.world - 1)

\* line 286: every rank enters the scope of every named parameter
GathersPrimaryOnly(r, entered, k) == IF IsRank0(r) THEN Append(entered, k) ELSE entered
GathersAfter(r, entered, k) == Append(entered, k)

\* lines 288-289: only rank 0 keeps the gathered value
KeptAfter(r, kept, k) == IF IsRank0(r) THEN kept \cup {k} ELSE kept

\* lines 273-280, 282: unwrap, then the direct save of the unsharded stages
SaveModelBegin(r) ==
    /\ sav.pcs[r] = "start"
    /\ IF sav.stage # 3
       THEN IF IsRank0(r)
            THEN sav' = [sav EXCEPT !.pcs[r] = "saved",
                                    !.file = ParamNames \cup {BufferName},
                                    !.log = @ \cup {<<r, "torch_save">>}]
            ELSE sav' = [sav EXCEPT !.pcs[r] = "saved"]
       ELSE sav' = [sav EXCEPT !.pcs[r] = "gather", !.idx[r] = 1, !.out[r] = {}]
    /\ UNCHANGED <<ckptVars, prep, ema, red>>

\* lines 284-286: the next named parameter; enter its gather scope
EnterGather(r) ==
    /\ sav.pcs[r] = "gather"
    /\ ~sav.inside[r]
    /\ sav.idx[r] <= NParams
    /\ sav' = [sav EXCEPT !.inside[r] = TRUE,
                          !.gathers[r] = GathersAfter(r, @, sav.idx[r])]
    /\ UNCHANGED <<ckptVars, prep, ema, red>>

\* lines 287-289: inside the scope.  An enabled gather is collective: it
\* completes once every rank has entered the scope of the same parameter.
LeaveGather(r) ==
    /\ sav.pcs[r] = "gather"
    /\ sav.inside[r]
    /\ sav.fetch[sav.idx[r]] =>
         \A q \in SavRanks : Len(sav.gathers[q]) >= Len(sav.gathers[r])
    /\ sav' = [sav EXCEPT !.inside[r] = FALSE,
                          !.out[r] = KeptAfter(r, @, sav.idx[r]),
                          !.idx[r] = @ + 1]
    /\ UNCHANGED <<ckptVars, prep, ema, red>>

\* lines 290-294: rank 0 adds the named buffers and writes the mapping once
WriteGathered(r) ==
    /\ sav.pcs[r] = "gather"
    /\ ~sav.inside[r]
    /\ sav.idx[r] > NParams
    /\ IF IsRank0(r)
       THEN sav' = [sav EXCEPT !.pcs[r] = "saved",
                               !.out[r] = @ \cup {BufferName},
                               !.file = sav.out[r] \cup {BufferName},
                               !.log = @ \cup {<<r, "torch_save">>}]
       ELSE sav' = [sav EXCEPT !.pcs[r] = "saved"]
    /\ UNCHANGED <<ckptVars, prep, ema, red>>

\* lines 302-308: save_hf_format's config and tokenizer, rank 0 only;
\* a plain save_model call returns
SaveReturn(r) ==
    /\ sav.pcs[r] = "saved"
    /\ IF sav.hf /\ IsRank0(r)
       THEN sav' = [sav EXCEPT !.pcs[r] = "done",
                               !.log = @ \cup {<<r, "config">>, <<r, "tokenizer">>}]
       ELSE sav' = [sav EXCEPT !.pcs[r] = "done"]
    /\ UNCHANGED <<ckptVars, prep, ema, red>>

InitSave ==
    /\ CkptIdle
    /\ prep = Idle
    /\ ema = Idle
    /\ red = Idle
    /\ \E st \in StageChoices, h \in BOOLEAN, w \in 1..MaxRanks,
          f \in [ParamNames -> BOOLEAN] :
         sav = [stage |-> st, hf |-> h, world |-> w, fetch |-> f,
                pcs |-> [r \in 0..(w - 1) |-> "start"],
                idx |-> [r \in 0..(w - 1) |-> 0],
                inside |-> [r \in 0..(w - 1) |-> FALSE],
                gathers |-> [r \in 0..(w - 1) |-> <<>>],
                out |-> [r \in 0..(w - 1) |-> {}],
                file |-> NoFile,
                log |-> {}]

NextSave ==
    \/ \E r \in SavRanks : SaveModelBegin(r)
    \/ \E r \in SavRanks : EnterGather(r)
    \/ \E r \in SavRanks : LeaveGather(r)
    \/ \E r \in SavRanks : WriteGathered(r)
    \/ \E r \in SavRanks : SaveReturn(r)

SpecSave == InitSave /\ [][NextSave]_vars

IsPrefix(a, b) == Len(a) <= Len(b) /\ \A i \in 1..Len(a) : a[i] = b[i]

\* C6: under stage 3 every rank enters the gather scope once per named
\* parameter, in the order of named_parameters(): on every rank the scopes
\* entered so far are a prefix of that order and, once the rank is past the
\* loop, all of it; a rank other than 0 accumulates nothing, and rank 0
\* accumulates every gathered parameter.
C6_SameGathersOnEveryRank ==
    sav.stage = 3 =>
        \A r \in SavRanks :
            /\ IsPrefix(sav.gathers[r], ParamSeq)
            /\ sav.pcs[r] \in {"saved", "done"} => sav.gathers[r] = ParamSeq
            /\ ~IsRank0(r) => sav.out[r] = {}
            /\ (IsRank0(r) /\ sav.pcs[r] \in {"saved", "done"}) =>
                   ParamNames \subseteq sav.out[r]

\* every write under the output path of save_model and save_hf_format is made
\* by rank 0 (the part of C4 that concerns these two operations)
SaveOnlyPrimaryWrites == \A e \in sav.log : IsRank0(e[1])

\* C6 witness: a group of at least two ranks, all past a loop of at least two
\* gathers, at least one of them collective
C6_Witness ==
    /\ sav.stage = 3
    /\ sav.world >= 2
    /\ NParams >= 2
    /\ \E k \in ParamNames : sav.fetch[k]
    /\ \A r \in SavRanks : sav.pcs[r] = "done" /\ Len(sav.gathers[r]) = NParams

-----------------------------------------------------------------------------
(* setup_distributed and moving_average: lines 72-83, 242-256              *)
(*                                                                         *)
(* ema.tbs, ema.mbs, ema.world   train_batch_size, micro_train_batch_size, *)
(*                               world_size                                *)
(* ema.acc        self.accumulated_gradient                                *)
(* ema.steps      self.time_steps["ema"]                                   *)
(* ema.beta       beta, as the numerator of a fraction over BetaDen        *)
(* ema.live[p]    param.data of the p-th pair                              *)
(* ema.rg[p]      param.requires_grad                                      *)
(* ema.rgEma[p]   param_ema.requires_grad                                  *)
(* ema.shadow[p]  param_ema.data, the rational num / BetaDen^exp           *)
(* ema.shadow0    param_ema.data before the first call                     *)

MaxBatch == 3           \* largest train_batch_size
MaxEmaCalls == 4        \* moving_average calls in one run
NPairs == 2             \* (param, param_ema) pairs
BetaDen == 2            \* beta ranges over 0/BetaDen .. BetaDen/BetaDen

ValueChoices == {1, 3}
Pairs == 1..NPairs

RECURSIVE Pow(_, _)
Pow(b, e) == IF e = 0 THEN 1 ELSE b * Pow(b, e - 1)

Exact(v) == [num |-> v, exp |-> 0]

\* two rationals num / BetaDen^exp are the same number
SameValue(a, b) == a.num * Pow(BetaDen, b.exp) = b.num * Pow(BetaDen, a.exp)

\* line 83: train_batch_size // micro_train_batch_size // world_size
AccumulatedGradient(tbs, mbs, world) == (tbs \div mbs) \div world

\* line 244: time_steps["ema"] % accumulated_gradient == 0
DueAlways(steps, acc) == TRUE
Due(steps, acc) == steps % acc = 0

\* line 247: if param.requires_grad
UpdatesAlways(p) == TRUE
Updates(p) == ema.rg[p]

\* lines 250, 256: (1 - beta) * data + beta * param_ema.data
Blend(beta, data, old) ==
    [num |-> (BetaDen - beta) * data * Pow(BetaDen, old.exp) + beta * old.num,
     exp |-> old.exp + 1]

\* lines 72-83
SetupDistributed ==
    /\ ema.pce = "new"
    /\ ema' = [ema EXCEPT !.pce = "ready",
                          !.acc = AccumulatedGradient(ema.tbs, ema.mbs, ema.world)]
    /\ UNCHANGED <<ckptVars, prep, sav, red>>

\* lines 242-256; the two branches of line 248 make the same assignment
MovingAverage ==
    /\ ema.pce = "ready"
    /\ ema.steps < MaxEmaCalls
    /\ IF ema.acc = 0
       THEN ema' = [ema EXCEPT !.steps = @ + 1, !.pce = "ZeroDivisionError"]
       ELSE IF Due(ema.steps + 1, ema.acc)
       THEN ema' = [ema EXCEPT
                !.steps = @ + 1,
                !.shadow = [p \in Pairs |->
                               IF Updates(p)
                               THEN Blend(ema.beta, ema.live[p], ema.shadow[p])
                               ELSE ema.shadow[p]]]
       ELSE ema' = [ema EXCEPT !.steps = @ + 1]
    /\ UNCHANGED <<ckptVars, prep, sav, red>>

InitEma ==
    /\ CkptIdle
    /\ prep = Idle
    /\ sav = Idle
    /\ red = Idle
    /\ \E t \in 1..MaxBatch, mb \in 1..2, w \in 1..2, b \in 0..BetaDen,
          l \in [Pairs -> ValueChoices], s0 \in [Pairs -> ValueChoices],
          g \in [Pairs -> BOOLEAN], ge \in [Pairs -> BOOLEAN] :
         ema = [pce |-> "new", tbs |-> t, mbs |-> mb, world |-> w, acc |-> 0,
                steps |-> 0, beta |-> b, live |-> l, rg |-> g, rgEma |-> ge,
                shadow |-> [p \in Pairs |-> Exact(s0[p])],
                shadow0 |-> [p \in Pairs |-> Exact(s0[p])]]

NextEma ==
    \/ SetupDistributed
    \/ MovingAverage

SpecEma == InitEma /\ [][NextEma]_vars

\* C7: a call of moving_average whose incremented counter is not a multiple of
\* the accumulation steps leaves every shadow parameter as it was; from a fresh
\* counter the shadow of a trainable parameter is still S after fewer than
\* accumulation_steps calls, and is beta*S + (1-beta)*L after exactly
\* accumulation_steps calls.
C7_BlendEveryAccumulationSteps ==
    /\ [](ema.pce = "ready" /\ ema.acc >= 1 =>
            \A p \in Pairs :
                /\ ema.steps < ema.acc => ema.shadow[p] = ema.shadow0[p]
                /\ (ema.steps = ema.acc /\ ema.rg[p]) =>
                       ema.shadow[p] = Blend(ema.beta, ema.live[p], ema.shadow0[p]))
    /\ [][(ema.pce = "ready" /\ ema.acc >= 1 /\ ema'.steps % ema.acc # 0) =>
              ema'.shadow = ema.shadow]_vars

\* C7 witness: the accumulation_steps-th call, of at least two, blended a
\* trainable parameter to a new value
C7_Witness ==
    /\ ema.pce = "ready"
    /\ ema.acc >= 2
    /\ ema.steps = ema.acc
    /\ \E p \in Pairs : ema.rg[p] /\ ~SameValue(ema.shadow[p], ema.shadow0[p])

\* C8 as stated: the shadow parameter of a pair keeps its data whenever either
\* parameter of the pair has requires_grad = false.
C8_FrozenEitherUnchanged ==
    \A p \in Pairs :
        (~ema.rg[p] \/ ~ema.rgEma[p]) => SameValue(ema.shadow[p], ema.shadow0[p])

\* C8 amended: the shadow parameter of a pair keeps its data whenever the live
\* parameter of the pair has requires_grad = false.
C8_FrozenLiveUnchanged ==
    \A p \in Pairs : ~ema.rg[p] => ema.shadow[p] = ema.shadow0[p]

\* C8 witness: a blend took place that changed one pair and skipped a pair
\* whose live parameter is frozen
C8_Witness ==
    /\ ema.steps >= 1
    /\ \E p, q \in Pairs :
         /\ ~ema.rg[p]
         /\ ema.live[p] # ema.shadow0[p].num
         /\ ema.rg[q]
         /\ ~SameValue(ema.shadow[q], ema.shadow0[q])

\* C19: for every train_batch_size >= 1,
\* micro_train_batch_size >= 1 and world_size >= 1 the accumulated_gradient of
\* line 83 is at least 1, so the cadence test of moving_average is always
\* defined and never fails.
C19_AccumulatedGradientPositive ==
    /\ ema.tbs >= 1 /\ ema.mbs >= 1 /\ ema.world >= 1
    /\ (ema.pce # "new" => ema.acc >= 1)
    /\ ema.pce # "ZeroDivisionError"

-----------------------------------------------------------------------------
(* all_reduce and all_gather: lines 310-346                                *)
(*                                                                         *)
(* A value is a leaf [t, v] or a mapping [t |-> "map", keys, at]:          *)
(*   t = "scalar"   a Python number; v is the one-element sequence of it   *)
(*   t = "cpu"      a host-resident torch.Tensor; v is its elements        *)
(*   t = "cuda"     an accelerator-resident torch.Tensor                   *)
(*   keys           the order in which the dict's items() lists its keys   *)
(*   at             the dict itself                                        *)
(* Numbers are exact fractions [n, d] (n / d, d > 0): the rounding of      *)
(* floating point is outside the model.                                    *)
(*                                                                         *)
(* red.fn, red.op    the method called and its op argument                 *)
(* red.world         self.world_size, the size of the process group        *)
(* red.data[r]       the object rank r passed in, as it is now             *)
(* red.data0[r]      the same object as it was when the call began         *)
(* red.pcr[r]        position of rank r: "leaf", "collective", "returned"  *)
(* red.pos[r]        leaves rank r has finished                            *)
(* red.buf[r]        the buffer rank r handed to the pending collective    *)
(* red.ret[r]        rank r's results so far, by path                      *)
(* red.out[r]        what the call returned on rank r                      *)

MaxValue == 7
Ops == {"mean", "max", "sum"}
Fns == {"all_reduce", "all_gather"}
Kinds == {"scalar", "cpu", "cuda"}
Shapes == {"leaf", "one", "two", "nested", "mixed"}
KeyOrders == {<<"a", "b">>, <<"b", "a">>}
NoValue == [t |-> "none"]
NoResults == [x \in {} |-> NoValue]
RedRanks == 0..(red.world - 1)

F(x) == [n |-> x, d |-> 1]
FracEq(a, b) == a.n * b.d = b.n * a.d
FracAdd(a, b) == [n |-> a.n * b.d + b.n * a.d, d |-> a.d * b.d]
FracMax(a, b) == IF a.n * b.d >= b.n * a.d THEN a ELSE b
FracDiv(a, k) == [n |-> a.n, d |-> a.d * k]

Leaf(kind, x) == [t |-> kind, v |-> <<F(x)>>]
Map(order, dict) == [t |-> "map", keys |-> order, at |-> dict]
IsMap(x) == x.t = "map"

RECURSIVE Flat(_)
Flat(ss) == IF ss = <<>> THEN <<>> ELSE Head(ss) \o Flat(Tail(ss))

\* lines 312-315, 334-337: the leaves in the order the recursion over
\* data.items() reaches them, each named by its path of keys
RECURSIVE LeafPaths(_, _)
LeafPaths(x, path) ==
    IF IsMap(x)
    THEN Flat([i \in 1..Len(x.keys) |->
                 LeafPaths(x.at[x.keys[i]], Append(path, x.keys[i]))])
    ELSE <<path>>

RECURSIVE At(_, _)
At(x, path) == IF path = <<>> THEN x ELSE At(x.at[Head(path)], Tail(path))

\* an in-place operation on the tensor at path
RECURSIVE SetAt(_, _, _)
SetAt(x, path, y) ==
    IF path = <<>> THEN y
    ELSE [x EXCEPT !.at[Head(path)] = SetAt(@, Tail(path), y)]

\* lines 313-316, 335-338: ret = {}; ret[k] = <result for v>; return ret
RECURSIVE Rebuild(_, _, _)
Rebuild(x, path, res) ==
    IF IsMap(x)
    THEN Map(x.keys, [k \in DOMAIN x.at |-> Rebuild(x.at[k], Append(path, k), res)])
    ELSE res[path]

\* line 319 / 340: isinstance(data, torch.Tensor)
IsTensor(leaf) == leaf.t # "scalar"
\* line 322 / 342: data.device.type == "cpu"; torch.Tensor([data]) is on the host
IsCpuTensor(leaf) == leaf.t \in {"scalar", "cpu"}
\* lines 325-326: data /= self.world_size
Scaled(op, buf, world) ==
    IF op = "mean" THEN [i \in DOMAIN buf |-> FracDiv(buf[i], world)] ELSE buf
\* line 328: dist.ReduceOp.MAX if op == "max" else dist.ReduceOp.SUM
ReduceOp(op) == IF op = "max" THEN "MAX" ELSE "SUM"
Elementwise(rop, a, b) ==
    [i \in DOMAIN a |-> IF rop = "MAX" THEN FracMax(a[i], b[i]) ELSE FracAdd(a[i], b[i])]
\* line 328: dist.all_reduce over the buffers of ranks 0..q
RECURSIVE DistAllReduce(_, _, _)
DistAllReduce(rop, bufs, q) ==
    IF q = 0 THEN bufs[0]
    ELSE Elementwise(rop, DistAllReduce(rop, bufs, q - 1), bufs[q])

\* lines 329-331: back to the host if it came from there; item() for a number
ReduceResultNoItem(leaf, buf) ==
    [t |-> IF IsCpuTensor(leaf) THEN "cpu" ELSE "cuda", v |-> buf]
ReduceResult(leaf, buf) ==
    IF IsTensor(leaf)
    THEN [t |-> IF IsCpuTensor(leaf) THEN "cpu" ELSE "cuda", v |-> buf]
    ELSE [t |-> "scalar", v |-> <<buf[1]>>]

\* lines 344-346: dist.all_gather fills ret by rank; torch.cat(ret)
RECURSIVE CatHighestRankFirst(_, _)
CatHighestRankFirst(bufs, q) ==
    IF q = 0 THEN bufs[0] ELSE bufs[q] \o CatHighestRankFirst(bufs, q - 1)
RECURSIVE DistAllGather(_, _)
DistAllGather(bufs, q) ==
    IF q = 0 THEN bufs[0] ELSE DistAllGather(bufs, q - 1) \o bufs[q]
\* line 346: torch.cat(ret).cpu() if is_cpu_tensor else torch.cat(ret)
GatherResult(leaf, buf) ==
    [t |-> IF IsCpuTensor(leaf) THEN "cpu" ELSE "cuda", v |-> buf]

\* the path of the leaf rank r is at
PathOf(r) == LeafPaths(red.data[r], <<>>)[red.pos[r] + 1]

\* all_reduce lines 317-326 up to the collective: a number is wrapped in a new
\* host tensor, a host tensor is copied to the accelerator, an accelerator
\* tensor is used as it is; the division of line 326 is in place
ReduceLeaf(r) ==
    /\ red.fn = "all_reduce"
    /\ r \in RedRanks
    /\ red.pcr[r] = "leaf"
    /\ red.pos[r] < Len(LeafPaths(red.data[r], <<>>))
    /\ LET leaf == At(red.data[r], PathOf(r))
           data == Scaled(red.op, leaf.v, red.world)
       IN  red' = [red EXCEPT
                     !.buf[r] = data,
                     !.data[r] = IF IsCpuTensor(leaf) THEN @
                                 ELSE SetAt(@, PathOf(r), [leaf EXCEPT !.v = data]),
                     !.pcr[r] = "collective"]
    /\ UNCHANGED <<ckptVars, prep, sav, ema>>

\* all_reduce lines 328-331: the collective pairs the calls of the ranks in the
\* order each rank makes them; it completes once every rank has made its call
\* and overwrites each rank's buffer with the result
ReduceCollective ==
    /\ red.fn = "all_reduce"
    /\ \A r \in RedRanks : red.pcr[r] = "collective"
    /\ LET data == DistAllReduce(ReduceOp(red.op), red.buf, red.world - 1)
           leaf(r) == At(red.data[r], PathOf(r))
       IN  red' = [red EXCEPT
                     !.buf = [r \in RedRanks |-> data],
                     !.data = [r \in RedRanks |->
                                 IF IsCpuTensor(leaf(r)) THEN red.data[r]
                                 ELSE SetAt(red.data[r], PathOf(r),
                                            [leaf(r) EXCEPT !.v = data])],
                     !.ret = [r \in RedRanks |->
                                (PathOf(r) :> ReduceResult(leaf(r), data)) @@ red.ret[r]],
                     !.pos = [r \in RedRanks |-> red.pos[r] + 1],
                     !.pcr = [r \in RedRanks |-> "leaf"]]
    /\ UNCHANGED <<ckptVars, prep, sav, ema>>

\* all_gather lines 340-343 up to the collective: data.to(device) is handed
\* over and not written to
GatherLeaf(r) ==
    /\ red.fn = "all_gather"
    /\ r \in RedRanks
    /\ red.pcr[r] = "leaf"
    /\ red.pos[r] < Len(LeafPaths(red.data[r], <<>>))
    /\ red' = [red EXCEPT !.buf[r] = At(red.data[r], PathOf(r)).v,
                          !.pcr[r] = "collective"]
    /\ UNCHANGED <<ckptVars, prep, sav, ema>>

\* all_gather lines 344-346
GatherCollective ==
    /\ red.fn = "all_gather"
    /\ \A r \in RedRanks : red.pcr[r] = "collective"
    /\ LET ret == DistAllGather(red.buf, red.world - 1)
           leaf(r) == At(red.data[r], PathOf(r))
       IN  red' = [red EXCEPT
                     !.ret = [r \in RedRanks |->
                                (PathOf(r) :> GatherResult(leaf(r), ret)) @@ red.ret[r]],
                     !.pos = [r \in RedRanks |-> red.pos[r] + 1],
                     !.pcr = [r \in RedRanks |-> "leaf"]]
    /\ UNCHANGED <<ckptVars, prep, sav, ema>>

\* lines 316, 331, 338, 346: the outermost call returns
ReturnResult(r) ==
    /\ r \in RedRanks
    /\ red.pcr[r] = "leaf"
    /\ red.pos[r] = Len(LeafPaths(red.data[r], <<>>))
    /\ red' = [red EXCEPT !.out[r] = Rebuild(red.data[r], <<>>, red.ret[r]),
                          !.pcr[r] = "returned"]
    /\ UNCHANGED <<ckptVars, prep, sav, ema>>

\* what rank r contributes to a leaf: its rank, or another number
Contribution(r, other) == IF other THEN MaxValue - 2 * r ELSE r

\* the object a rank passes: every rank passes the same shape with leaves of
\* the same kind; the numbers and the order of the keys are each rank's own
Input(shape, kind, x, y, order) ==
    CASE shape = "leaf"   -> Leaf(kind, x)
      [] shape = "one"    -> Map(<<"a">>, [a |-> Leaf(kind, x)])
      [] shape = "two"    -> Map(order, [a |-> Leaf(kind, x), b |-> Leaf(kind, y)])
      [] shape = "nested" -> Map(<<"a">>, [a |-> Map(<<"c">>, [c |-> Leaf(kind, x)])])
      [] shape = "mixed"  -> Map(order, [a |-> Map(<<"c">>, [c |-> Leaf(kind, x)]),
                                         b |-> Leaf(kind, y)])

InitReduce ==
    /\ CkptIdle
    /\ prep = Idle
    /\ sav = Idle
    /\ ema = Idle
    /\ \E w \in 1..MaxRanks, f \in Fns, o \in Ops, shape \in Shapes, kind \in Kinds :
       \E cx, cy \in [0..(w - 1) -> BOOLEAN], order \in [0..(w - 1) -> KeyOrders] :
         /\ f = "all_gather" => o = "sum"
         /\ shape \in {"leaf", "one", "nested"} =>
              \A r \in 0..(w - 1) : ~cy[r] /\ order[r] = <<"a", "b">>
         /\ LET data == [r \in 0..(w - 1) |->
                           Input(shape, kind, Contribution(r, cx[r]),
                                 Contribution(r, cy[r]), order[r])]
            IN  red = [fn |-> f, op |-> o, world |-> w, data |-> data, data0 |-> data,
                       pcr |-> [r \in 0..(w - 1) |-> "leaf"],
                       pos |-> [r \in 0..(w - 1) |-> 0],
                       buf |-> [r \in 0..(w - 1) |-> <<>>],
                       ret |-> [r \in 0..(w - 1) |-> NoResults],
                       out |-> [r \in 0..(w - 1) |-> NoValue]]

NextReduce ==
    \/ \E r \in RedRanks : ReduceLeaf(r)
    \/ ReduceCollective
    \/ \E r \in RedRanks : GatherLeaf(r)
    \/ GatherCollective
    \/ \E r \in RedRanks : ReturnResult(r)

SpecReduce == InitReduce /\ [][NextReduce]_vars

-----------------------------------------------------------------------------
(* Properties of all_reduce and all_gather                                 *)

Range(q) == {q[i] : i \in DOMAIN q}
\* the leaf paths of the object rank r passed
PathsOf(r) == Range(LeafPaths(red.data0[r], <<>>))
\* the number rank q holds under path p (leaves of the model have one element)
Held(q, p) == At(red.data0[q], p).v[1]

RECURSIVE SumHeld(_, _)
SumHeld(p, q) == IF q = 0 THEN Held(0, p) ELSE FracAdd(SumHeld(p, q - 1), Held(q, p))
RECURSIVE MaxHeld(_, _)
MaxHeld(p, q) == IF q = 0 THEN Held(0, p) ELSE FracMax(MaxHeld(p, q - 1), Held(q, p))

\* the reduction of what the ranks hold under path p
Reduction(op, p) ==
    CASE op = "sum"  -> SumHeld(p, red.world - 1)
      [] op = "max"  -> MaxHeld(p, red.world - 1)
      [] op = "mean" -> FracDiv(SumHeld(p, red.world - 1), red.world)

\* two leaves of the same kind holding the same numbers
SameLeaf(x, y) ==
    /\ x.t = y.t
    /\ Len(x.v) = Len(y.v)
    /\ \A i \in 1..Len(x.v) : FracEq(x.v[i], y.v[i])

\* one level of keys after another, the same keys
RECURSIVE SameKeys(_, _)
SameKeys(x, y) ==
    IF IsMap(x)
    THEN /\ IsMap(y)
         /\ DOMAIN x.at = DOMAIN y.at
         /\ Range(x.keys) = DOMAIN x.at
         /\ \A k \in DOMAIN x.at : SameKeys(x.at[k], y.at[k])
    ELSE ~IsMap(y) /\ y.t \in Kinds

\* equal as Python objects: the same keys in whatever order, equal leaves
SameObject(x, y) ==
    /\ SameKeys(x, y)
    /\ \A p \in Range(LeafPaths(x, <<>>)) : SameLeaf(At(x, p), At(y, p))

\* C11: for a mapping input on two or more processes,
\* all_reduce returns on every process, under each key, the reduction (sum, max,
\* or mean = sum / world_size) of the leaves the processes hold under that same
\* key, whatever order each process's mapping lists its keys in.
C11_ReducedPerKey ==
    \A r \in RedRanks :
        (/\ red.fn = "all_reduce" /\ red.world >= 2
         /\ IsMap(red.data0[r]) /\ red.pcr[r] = "returned")
        => \A p \in PathsOf(r) :
             LET was == At(red.data0[r], p)
                 got == At(red.out[r], p)
             IN  /\ got.t = was.t
                 /\ FracEq(got.v[1], Reduction(red.op, p))

\* every process lists the keys of its mapping in the same order
SameKeyOrder == \A r, q \in RedRanks : LeafPaths(red.data0[r], <<>>) = LeafPaths(red.data0[q], <<>>)

\* C11, with the same key order on every process: the reductions are per key
ReducedPerKeyInOrder == SameKeyOrder => C11_ReducedPerKey

RankContributed == \A q \in RedRanks : \A p \in PathsOf(q) : Held(q, p) = F(q)
\* the buffer <<0, 1, ..., world - 1>>
RankOrder == [i \in 1..red.world |-> F(i - 1)]

GatheredNumberOnOneProcess ==
    /\ red.fn = "all_gather" /\ red.world = 1 /\ red.pcr[0] = "returned"
    /\ red.data0[0] = Leaf("scalar", MaxValue)
    /\ red.out[0] = Leaf("cpu", MaxValue)

\* C20: all_reduce leaves the caller's input unchanged:
\* every leaf buffer passed in, resident on the host or on the accelerator,
\* holds after the call what it held before, for every op.
C20_InputUnchanged ==
    \A r \in RedRanks :
        red.fn = "all_reduce" => SameObject(red.data0[r], red.data[r])

\* as C20, for numbers and host-resident buffers only
HostInputUnchanged ==
    \A r \in RedRanks :
        (red.fn = "all_reduce" /\ \A p \in PathsOf(r) : IsCpuTensor(At(red.data0[r], p)))
        => red.data[r] = red.data0[r]

=============================================================================
